---- MODULE Spec2Model ----
(***************************************************************************)
(* The two example scripts of the repository:                              *)
(*   examples/use_case_1/src/main.py  one chat completion, printed         *)
(*   examples/use_case_2/src/main.py  chat completion with tool calling    *)
(* One behaviour of the model is one run of one of the two scripts.  The   *)
(* remote completion service and the wall clock are the environment: each  *)
(* remote call either raises or returns a reply drawn from a bounded set.  *)
(***************************************************************************)
EXTENDS Integers, Sequences, FiniteSets, TLC

VARIABLES
    script,       \* which script runs: 1 (use_case_1) or 2 (use_case_2)
    env_key,      \* value of os.getenv("OPENAI_API_KEY")
    pc,           \* position of main()
    messages,     \* use case 2: the list `messages`
    tool_calls,   \* use case 2: assistant_response.tool_calls being iterated
    idx,          \* use case 2: position of the for loop (next request)
    requests,     \* every client.chat.completions.create call made, in order
    invocations,  \* calls of get_current_time / get_weather made, in order
    final_response, \* use case 2: the reply to the follow-up request
    tool_used,    \* the "Tool used: ..." lines printed, in order
    answers,      \* what print() wrote for an agent response
    errors,       \* what print() wrote for an error
    completed,    \* "... completed successfully." was printed
    exit_code     \* process exit status; NotExited while running

vars == <<script, env_key, pc, messages, tool_calls, idx, requests,
          final_response, invocations, tool_used, answers, errors, completed, exit_code>>

----------------------------------------------------------------------------
(* Bounds of the environment *)

\* most tool-call requests one reply of the service carries
MaxCalls == 2

\* exit_code of a process that has not exited
NotExited == 0 - 1

\* Python's None
None == "<None>"

\* os.getenv("OPENAI_API_KEY"): unset (None), set to "", or set to a key
EnvKeys == {None, "", "sk-test"}

\* content of a reply: optional text
Contents == {None, "It is noon and sunny in Tokyo."}

\* tool-call ids the service hands out (unique within one reply)
Ids == {"call_a", "call_b", "call_c"}

\* function names a tool-call request may carry
FunctionNames == {"get_current_time", "get_weather", "get_stock_price"}

\* JSON text of the arguments payload: an object with a location, an empty
\* object, valid JSON that is no object, and text that is not JSON
ArgumentTexts == {"{\"location\": \"Tokyo\"}", "{}", "[]", "{\"location\": "}

\* what datetime.now().strftime(...) may return
Timestamps == {"2024-01-01 12:00:00", "2024-01-01 12:00:01"}

\* messages of the exceptions the remote call raises
ApiErrors == {"Connection error."}

----------------------------------------------------------------------------
(* Pure helpers *)

\* str(x) as print() and f-strings apply it: text is itself, None is "None"
PyStr(x) == IF x = None THEN "None" ELSE x

\* a check that only rejects the empty string
TruthyNonEmpty(x) == x # ""

\* truth value of a str-or-None: None and "" are falsy
Truthy(x) == x # None /\ x # ""

\* json.loads(text): the decoded value, or the JSONDecodeError it raises.
\* kind "object" is a dict (has_location / location give its "location"
\* entry), kind "array" is a list, kind "error" is a raise.
json_loads(text) ==
    CASE text = "{\"location\": \"Tokyo\"}" ->
            [kind |-> "object", has_location |-> TRUE, location |-> "Tokyo"]
      [] text = "{}" ->
            [kind |-> "object", has_location |-> FALSE, location |-> None]
      [] text = "[]" ->
            [kind |-> "array", has_location |-> FALSE, location |-> None]
      [] OTHER ->
            [kind |-> "error", has_location |-> FALSE, location |-> None]

\* function_args.get("location", "New York") on a dict
args_get_location(function_args) ==
    IF function_args.has_location THEN function_args.location ELSE "New York"

get_weather(location) ==
    "The weather in " \o PyStr(location) \o " is currently sunny and 72°F."

not_implemented(function_name) ==
    "Error: Function " \o function_name \o " not implemented"

\* `if assistant_response.tool_calls:` read as "is not None": an empty list
\* would count as a request to use tools
HasToolCallsNotNone(reply) == reply.tool_calls_set

\* `if assistant_response.tool_calls:` - None and the empty list are falsy
HasToolCalls(reply) == reply.tool_calls_set /\ Len(reply.tool_calls) > 0

\* a conversation message; fields a message does not have are None / << >>
Message(role, content, tool_call_id, name, calls_set, calls) ==
    [role |-> role, content |-> content, tool_call_id |-> tool_call_id,
     name |-> name, tool_calls_set |-> calls_set, tool_calls |-> calls]

InitialMessages ==
    << Message("system", "You are a helpful assistant with access to tools.",
               None, None, FALSE, << >>),
       Message("user", "What time is it now? And what's the weather in Tokyo?",
               None, None, FALSE, << >>) >>

UseCase1Messages ==
    << Message("system", "You are a helpful assistant.", None, None, FALSE, << >>),
       Message("user", "Write a haiku about the ocean.", None, None, FALSE, << >>) >>

\* a tool message that echoes the function name where the id belongs
ToolMessageNameAsId(tool_call, function_response) ==
    Message("tool", function_response, tool_call.function.name,
            tool_call.function.name, FALSE, << >>)

ToolMessage(tool_call, function_response) ==
    Message("tool", function_response, tool_call.id, tool_call.function.name,
            FALSE, << >>)

\* a request as sent: the messages and whether a tool catalog went with it
Request(msgs, with_tools) == [messages |-> msgs, tools |-> with_tools]

----------------------------------------------------------------------------
(* What the service may reply *)

ToolCallRequests ==
    [id : Ids, function : [name : FunctionNames, arguments : ArgumentTexts]]

\* lists of at most MaxCalls requests with pairwise distinct ids
ToolCallLists ==
    UNION { { s \in [1..n -> ToolCallRequests] :
                \A i, j \in 1..n : i # j => s[i].id # s[j].id } : n \in 0..MaxCalls }

\* an assistant message: tool_calls is None (tool_calls_set FALSE) or a list
Replies ==
    { Message("assistant", c, None, None, FALSE, << >>) : c \in Contents }
    \cup
    { Message("assistant", c, None, None, TRUE, tc) :
        c \in Contents, tc \in ToolCallLists }

\* no reply received yet
NoReply == Message(None, None, None, None, FALSE, << >>)

\* replies of use case 1, which offers no tool catalog
PlainReplies == { r \in Replies : ~r.tool_calls_set }

\* replies to the follow-up request: the code reads only their content
FinalReplies ==
    { r \in Replies : Len(r.tool_calls) <= 1 /\
        \A i \in 1..Len(r.tool_calls) :
            r.tool_calls[i].id = "call_c" /\
            r.tool_calls[i].function.arguments = "{}" }

----------------------------------------------------------------------------
(* The run *)

Init ==
    /\ script \in {1, 2}
    /\ env_key \in EnvKeys
    /\ pc = "check_env"
    /\ messages = << >>
    /\ tool_calls = << >>
    /\ idx = 1
    /\ requests = << >>
    /\ final_response = NoReply
    /\ invocations = << >>
    /\ tool_used = << >>
    /\ answers = << >>
    /\ errors = << >>
    /\ completed = FALSE
    /\ exit_code = NotExited

\* an except clause that reports the error and lets main() return normally
FailNoExit(e) ==
    /\ errors' = Append(errors, "Error: " \o e)
    /\ exit_code' = 0
    /\ pc' = "exited"

\* except Exception as e: print(f"Error: {e}"); sys.exit(1)
Fail(e) ==
    /\ errors' = Append(errors, "Error: " \o e)
    /\ exit_code' = 1
    /\ pc' = "exited"

\* check_env() with the credential missing: report and sys.exit(1)
CheckEnvMissing ==
    /\ pc = "check_env"
    /\ ~Truthy(env_key)
    /\ errors' = Append(errors, "Error: OPENAI_API_KEY environment variable is not set.")
    /\ exit_code' = 1
    /\ pc' = "exited"
    /\ UNCHANGED <<final_response, script, env_key, messages, tool_calls, idx, requests,
                   invocations, tool_used, answers, completed>>

\* check_env() passes; use case 2 then builds `messages`
CheckEnvOk ==
    /\ pc = "check_env"
    /\ Truthy(env_key)
    /\ pc' = "first_call"
    /\ messages' = IF script = 2 THEN InitialMessages ELSE << >>
    /\ UNCHANGED <<final_response, script, env_key, tool_calls, idx, requests, invocations,
                   tool_used, answers, errors, completed, exit_code>>

\* use case 1: the completion call raises
UC1CallFails ==
    /\ pc = "first_call" /\ script = 1
    /\ requests' = Append(requests, Request(UseCase1Messages, FALSE))
    /\ \E e \in ApiErrors : Fail(e)
    /\ UNCHANGED <<final_response, script, env_key, messages, tool_calls, idx, invocations,
                   tool_used, answers, completed>>

\* use case 1: the completion call returns; print the content and finish
UC1CallReturns ==
    /\ pc = "first_call" /\ script = 1
    /\ requests' = Append(requests, Request(UseCase1Messages, FALSE))
    /\ \E response \in PlainReplies :
          answers' = Append(answers, PyStr(response.content))
    /\ completed' = TRUE
    /\ exit_code' = 0
    /\ pc' = "done"
    /\ UNCHANGED <<final_response, script, env_key, messages, tool_calls, idx, invocations,
                   tool_used, errors>>

\* use case 2: the first completion call raises
FirstCallFails ==
    /\ pc = "first_call" /\ script = 2
    /\ requests' = Append(requests, Request(messages, TRUE))
    /\ \E e \in ApiErrors : Fail(e)
    /\ UNCHANGED <<final_response, script, env_key, messages, tool_calls, idx, invocations,
                   tool_used, answers, completed>>

\* use case 2: the first completion call returns a reply with tool calls;
\* the reply is appended and the loop over its tool calls is entered
FirstCallToolCalls ==
    /\ pc = "first_call" /\ script = 2
    /\ requests' = Append(requests, Request(messages, TRUE))
    /\ \E assistant_response \in Replies :
          /\ HasToolCalls(assistant_response)
          /\ messages' = Append(messages, assistant_response)
          /\ tool_calls' = assistant_response.tool_calls
          /\ pc' = IF Len(assistant_response.tool_calls) = 0
                   THEN "follow_up" ELSE "dispatch"
    /\ idx' = 1
    /\ UNCHANGED <<final_response, script, env_key, invocations, tool_used, answers, errors,
                   completed, exit_code>>

\* use case 2: the first reply has no tool calls (None or an empty list);
\* the reply is appended, its content printed and the run finishes
FirstCallNoToolCalls ==
    /\ pc = "first_call" /\ script = 2
    /\ requests' = Append(requests, Request(messages, TRUE))
    /\ \E assistant_response \in Replies :
          /\ ~HasToolCalls(assistant_response)
          /\ messages' = Append(messages, assistant_response)
          /\ answers' = Append(answers, PyStr(assistant_response.content))
    /\ completed' = TRUE
    /\ exit_code' = 0
    /\ pc' = "done"
    /\ UNCHANGED <<final_response, script, env_key, tool_calls, idx, invocations, tool_used,
                   errors>>

\* a loop body that calls the function twice for one request
DispatchedTwice(tool_call, function_response, called) ==
    /\ messages' = Append(messages, ToolMessage(tool_call, function_response))
    /\ tool_used' = Append(tool_used, tool_call.function.name)
    /\ invocations' = invocations \o called \o called
    /\ idx' = idx + 1
    /\ pc' = IF idx = Len(tool_calls) THEN "follow_up" ELSE "dispatch"
    /\ UNCHANGED <<answers, errors, completed, exit_code>>

\* a loop body that overwrites the last message instead of appending
DispatchedOverwrite(tool_call, function_response, called) ==
    /\ messages' = [messages EXCEPT ![Len(messages)] =
                        ToolMessage(tool_call, function_response)]
    /\ tool_used' = Append(tool_used, tool_call.function.name)
    /\ invocations' = invocations \o called
    /\ idx' = idx + 1
    /\ pc' = IF idx = Len(tool_calls) THEN "follow_up" ELSE "dispatch"
    /\ UNCHANGED <<answers, errors, completed, exit_code>>

\* the appended tool message and the rest of one loop iteration
Dispatched(tool_call, function_response, called) ==
    /\ messages' = Append(messages, ToolMessage(tool_call, function_response))
    /\ tool_used' = Append(tool_used, tool_call.function.name)
    /\ invocations' = invocations \o called
    /\ idx' = idx + 1
    /\ pc' = IF idx = Len(tool_calls) THEN "follow_up" ELSE "dispatch"
    /\ UNCHANGED <<answers, errors, completed, exit_code>>

\* one iteration of `for tool_call in assistant_response.tool_calls`
DispatchToolCall ==
    /\ pc = "dispatch"
    /\ idx <= Len(tool_calls)
    /\ LET tool_call == tool_calls[idx]
           function_name == tool_call.function.name
           function_args == json_loads(tool_call.function.arguments)
       IN  IF function_args.kind = "error"
           THEN \* json.loads raises JSONDecodeError
                /\ Fail("Expecting value: line 1 column 14 (char 13)")
                /\ UNCHANGED <<messages, tool_used, invocations, idx, answers,
                               completed>>
           ELSE IF function_name = "get_current_time"
           THEN \E now \in Timestamps :
                   Dispatched(tool_call, now,
                              << [function |-> "get_current_time", arg |-> None] >>)
           ELSE IF function_name = "get_weather"
           THEN IF function_args.kind # "object"
                THEN \* function_args.get raises AttributeError
                     /\ Fail("'list' object has no attribute 'get'")
                     /\ UNCHANGED <<messages, tool_used, invocations, idx,
                                    answers, completed>>
                ELSE LET location == args_get_location(function_args)
                     IN  Dispatched(tool_call, get_weather(location),
                                    << [function |-> "get_weather",
                                        arg |-> location] >>)
           ELSE Dispatched(tool_call, not_implemented(function_name), << >>)
    /\ UNCHANGED <<final_response, script, env_key, tool_calls, requests>>

\* the follow-up completion call raises
FollowUpFails ==
    /\ pc = "follow_up"
    /\ requests' = Append(requests, Request(messages, FALSE))
    /\ \E e \in ApiErrors : Fail(e)
    /\ UNCHANGED <<final_response, script, env_key, messages, tool_calls, idx, invocations,
                   tool_used, answers, completed>>

\* a follow-up that loops: tool calls of the follow-up reply are dispatched
\* and followed by another request
FollowUpLoops ==
    /\ pc = "follow_up"
    /\ requests' = Append(requests, Request(messages, FALSE))
    /\ \E reply \in FinalReplies :
          /\ final_response' = reply
          /\ IF HasToolCalls(reply)
             THEN /\ messages' = Append(messages, reply)
                  /\ tool_calls' = reply.tool_calls
                  /\ idx' = 1
                  /\ pc' = "dispatch"
                  /\ UNCHANGED <<answers, completed, exit_code>>
             ELSE /\ answers' = Append(answers, PyStr(reply.content))
                  /\ completed' = TRUE
                  /\ exit_code' = 0
                  /\ pc' = "done"
                  /\ UNCHANGED <<messages, tool_calls, idx>>
    /\ UNCHANGED <<script, env_key, invocations, tool_used, errors>>

\* the follow-up completion call returns; print its content and finish
FollowUpReturns ==
    /\ pc = "follow_up"
    /\ requests' = Append(requests, Request(messages, FALSE))
    /\ \E reply \in FinalReplies :
          /\ final_response' = reply
          /\ answers' = Append(answers, PyStr(reply.content))
    /\ completed' = TRUE
    /\ exit_code' = 0
    /\ pc' = "done"
    /\ UNCHANGED <<script, env_key, messages, tool_calls, idx, invocations,
                   tool_used, errors>>

Next ==
    \/ CheckEnvMissing
    \/ CheckEnvOk
    \/ UC1CallFails
    \/ UC1CallReturns
    \/ FirstCallFails
    \/ FirstCallToolCalls
    \/ FirstCallNoToolCalls
    \/ DispatchToolCall
    \/ FollowUpFails
    \/ FollowUpReturns

Spec == Init /\ [][Next]_vars

----------------------------------------------------------------------------
(* Vocabulary of the properties *)

Terminal == pc \in {"done", "exited"}

\* the first reply of use case 2 has been received and appended
GotFirstReply == script = 2 /\ Len(messages) >= 3

\* the number of tool-call requests the first reply carries
NumCalls == Len(messages[3].tool_calls)

KnownFunction(name) == name \in {"get_current_time", "get_weather"}

\* the arguments payload of the i-th request decodes to a JSON object
DecodesToObject(i) ==
    json_loads(tool_calls[i].function.arguments).kind = "object"

\* the loop has taken up the i-th request and is no longer working on it:
\* it moved on, or the run ended inside that iteration
LeftRequest(i) ==
    \/ idx > i
    \/ idx = i /\ pc = "exited" /\ Len(requests) = 1

\* the i-th request was answered by the tool message at its place
Answered(i) ==
    /\ Len(messages) >= 3 + i
    /\ messages[3 + i].role = "tool"
    /\ messages[3 + i].tool_call_id = tool_calls[i].id
    /\ messages[3 + i].name = tool_calls[i].function.name

IsPrefix(s, t) == Len(s) <= Len(t) /\ SubSeq(t, 1, Len(s)) = s

\* the function names of the first k requests, in request order
NamesOfFirst(k) == [i \in 1..k |-> tool_calls[i].function.name]

\* the functions that were invoked, in invocation order
InvokedFunctions == [i \in 1..Len(invocations) |-> invocations[i].function]

----------------------------------------------------------------------------
(* Properties *)

\* C1: in use case 2, whenever the first reply carried N >= 1 tool-call
\* requests, whatever their names and arguments, the finished run has made
\* exactly N dispatches in request order and then exactly one follow-up
\* call, sent with all N results in the conversation.
C1_AllDispatchedThenFollowUp ==
    (GotFirstReply /\ NumCalls >= 1 /\ Terminal) =>
        /\ tool_used = NamesOfFirst(NumCalls)
        /\ \A i \in 1..NumCalls : Answered(i)
        /\ Len(requests) = 2
        /\ Len(requests[2].messages) = 3 + NumCalls

\* C2 as claimed: a first reply without tool-call requests (None or an
\* empty list) ends the run after one remote call, with no dispatch and no
\* follow-up, and the output is the reply's content unchanged.
C2_ContentUnchanged ==
    (GotFirstReply /\ NumCalls = 0) =>
        /\ pc = "done" /\ exit_code = 0
        /\ Len(requests) = 1
        /\ tool_used = << >> /\ invocations = << >>
        /\ Len(messages) = 3
        /\ answers = << messages[3].content >>

\* C2 as amended: the same run shape; the output is the reply's content
\* unchanged when the reply has content text and the text None when the
\* reply has no content.
C2_NoToolCalls ==
    (GotFirstReply /\ NumCalls = 0) =>
        /\ pc = "done" /\ exit_code = 0
        /\ Len(requests) = 1
        /\ tool_used = << >> /\ invocations = << >>
        /\ Len(messages) = 3
        /\ answers = << IF messages[3].content = None
                        THEN "None" ELSE messages[3].content >>

C2_Witness ==
    /\ GotFirstReply /\ pc = "done"
    /\ messages[3].tool_calls_set /\ NumCalls = 0
    /\ messages[3].content = None
    /\ answers = << "None" >>

\* C3: when the follow-up request is sent, every request id of the first
\* reply is the tool_call_id of exactly one tool message placed after the
\* assistant reply, and at all times every tool message of the conversation
\* carries the id and the function name of the request it answers.
C3_EveryRequestAnswered ==
    /\ \A j \in 1..Len(messages) :
          messages[j].role = "tool" =>
              /\ j > 3 /\ j - 3 <= Len(tool_calls)
              /\ messages[j].tool_call_id = tool_calls[j - 3].id
              /\ messages[j].name = tool_calls[j - 3].function.name
    /\ (script = 2 /\ Len(requests) = 2) =>
          LET sent == requests[2].messages
          IN  \A i \in 1..Len(sent[3].tool_calls) :
                 Cardinality({ j \in 4..Len(sent) :
                                 /\ sent[j].role = "tool"
                                 /\ sent[j].tool_call_id =
                                        sent[3].tool_calls[i].id }) = 1

C3_Witness ==
    /\ script = 2 /\ Len(requests) = 2
    /\ Len(tool_calls) = 2
    /\ tool_calls[1].function.name = tool_calls[2].function.name

\* C4: a request whose arguments payload does not decode to a JSON object
\* never aborts dispatch: once the loop has left that request it is answered
\* by a tool message, and get_weather was called as with no arguments.
C4_MalformedNeverAborts ==
    \A i \in 1..Len(tool_calls) :
        (~DecodesToObject(i) /\ LeftRequest(i)) =>
            /\ Answered(i)
            /\ tool_calls[i].function.name = "get_weather" =>
                   messages[3 + i].content = get_weather("New York")

\* C5: a request naming neither get_current_time nor get_weather never ends
\* the run: once the loop has left that request it is answered by a tool
\* message whose content is the "not implemented" text naming the function.
C5_UnknownNeverRaises ==
    \A i \in 1..Len(tool_calls) :
        (~KnownFunction(tool_calls[i].function.name) /\ LeftRequest(i)) =>
            /\ Answered(i)
            /\ messages[3 + i].content =
                   "Error: Function " \o tool_calls[i].function.name
                       \o " not implemented"

\* C6: in both scripts, with the credential unset or empty no remote call
\* is ever made, and the only step the run takes ends it with exit status 1.
C6_NoCallWithoutCredential ==
    (env_key = None \/ env_key = "") =>
        /\ requests = << >>
        /\ pc \in {"check_env", "exited"}
        /\ pc = "check_env" => ENABLED Next
        /\ pc = "exited" => exit_code = 1 /\ Len(errors) = 1

C6_Witness ==
    /\ env_key = None /\ script = 2 /\ pc = "exited" /\ exit_code = 1

\* C7: every run goes on until it ends, and it ends in exactly one of two
\* ways: one answer printed, no error, exit 0; or one error printed, no
\* answer, exit 1.  Nothing follows the end, so a failed remote call is
\* never retried.
C7_TwoOutcomes ==
    /\ ~Terminal => /\ ENABLED Next
                    /\ exit_code = NotExited
                    /\ answers = << >> /\ errors = << >> /\ ~completed
    /\ Terminal => ~ENABLED Next
    /\ pc = "done" => /\ exit_code = 0 /\ completed
                      /\ Len(answers) = 1 /\ errors = << >>
    /\ pc = "exited" => /\ exit_code = 1 /\ ~completed
                        /\ answers = << >> /\ Len(errors) = 1

C7_Witness ==
    /\ script = 2 /\ pc = "exited" /\ Len(requests) = 2
    /\ Len(tool_used) = 2
    /\ errors = << "Error: Connection error." >>

\* C8: a run of use case 2 makes at most two remote calls and dispatches
\* only requests of the first reply; when the follow-up reply carries
\* tool-call requests the run is over all the same.
C8_AtMostTwoRoundTrips ==
    /\ Len(requests) <= 2
    /\ script = 1 => Len(requests) <= 1
    /\ GotFirstReply =>
          /\ Len(tool_used) <= NumCalls
          /\ Len(messages) <= 3 + NumCalls
          /\ tool_calls \in {<< >>, messages[3].tool_calls}
    /\ Len(final_response.tool_calls) > 0 => pc = "done" /\ ~ENABLED Next

C8_Witness ==
    /\ pc = "done" /\ Len(requests) = 2
    /\ Len(final_response.tool_calls) = 1
    /\ Len(tool_used) = 1

C10_AppendOnly ==
    /\ [][IsPrefix(messages, messages')]_vars
    /\ [](Len(requests) = 2 =>
            LET sent == requests[2].messages
            IN  /\ SubSeq(sent, 1, 2) = InitialMessages
                /\ sent[3].role = "assistant"
                /\ sent[3].tool_calls = tool_calls
                /\ Len(sent) = 3 + Len(tool_calls)
                /\ \A i \in 1..Len(tool_calls) :
                      /\ sent[3 + i].role = "tool"
                      /\ sent[3 + i].tool_call_id = tool_calls[i].id
                      /\ sent[3 + i].name = tool_calls[i].function.name
                /\ sent = messages)

C10_Witness ==
    /\ Len(requests) = 2
    /\ Len(requests[2].messages) = 5

====
